---- MODULE Spec2Model ----
(***************************************************************************)
(* Model of baselines/mixture_embedding_experts/retrieval_dataset.py:      *)
(* RetrievalDataset, RetrievalEvalDataset, retrieval_collate and           *)
(* prepare_batch_inputs.                                                   *)
(*                                                                         *)
(* Conventions.  A numpy array / torch tensor is a sequence (1-D) or a     *)
(* sequence of rows (2-D) of integers in fixed point: the integer x stands *)
(* for x / Scale.  A python dict is a function over its keys, python None  *)
(* is the string "None", a python list is a sequence, python indices are   *)
(* 0-based integers as in the source.  A float data_ratio is the exact     *)
(* rational <<num, den>>.  A raised exception is the name of its class.    *)
(***************************************************************************)
EXTENDS Integers, Sequences, FiniteSets, TLC

VARIABLES ds, opened, out, batch

vars == <<ds, opened, out, batch>>

---------------------------------------------------------------------------
(* Bounds of the model.                                                    *)

\* records in the largest query file
MaxRecords == 10
\* records in the query files of the life-cycle specification
SmallRecords == 2
\* videos of the "val" split (the "test_public" split has one more)
NumVideos == 2
\* dimension of every stored feature row
FeatDim == 3
\* rows of the longest stored query feature
MaxStoredLen == 7
\* largest max_desc_len of the life-cycle specification
MaxDescLen == 2
\* largest max_ctx_len
MaxCtxLen == 2
\* examples in the largest batch
MaxBatch == 3
\* fixed-point unit: the integer Scale stands for 1.0
Scale == 100

---------------------------------------------------------------------------
(* Python and numpy primitives the source relies on.                       *)

None == "None"
NoAttr == "NoAttr"

Min(a, b) == IF a <= b THEN a ELSE b
Max(a, b) == IF a >= b THEN a ELSE b

\* int(num / den) for den > 0: truncation toward zero
PyInt(num, den) ==
    IF num >= 0 THEN num \div den ELSE -((-num) \div den)

\* seq[:k] with python's slice semantics (k < 0, k > len) for an integer k
PySliceTo(seq, k) ==
    IF k >= 0 THEN SubSeq(seq, 1, Min(k, Len(seq)))
    ELSE SubSeq(seq, 1, Max(Len(seq) + k, 0))

\* whether seq[i] is defined for the python index i
PyIndexOk(seq, i) == i >= -Len(seq) /\ i < Len(seq)

\* seq[i] for a python index i (negative indices count from the end)
PyIndex(seq, i) == IF i >= 0 THEN seq[i + 1] ELSE seq[Len(seq) + i + 1]

Digits == <<"0", "1", "2", "3", "4", "5", "6", "7", "8", "9">>

\* str(n) for n >= 0, as the sequence of its decimal digits
RECURSIVE Str(_)
Str(n) ==
    IF n < 10 THEN <<Digits[n + 1]>>
    ELSE Str(n \div 10) \o <<Digits[(n % 10) + 1]>>

\* sub in s, for two python strings given as sequences of characters
StrContains(sub, s) ==
    \E i \in 0..(Len(s) - Len(sub)) : SubSeq(s, i + 1, i + Len(sub)) = sub

RECURSIVE SumSeq(_)
SumSeq(s) == IF s = <<>> THEN 0 ELSE Head(s) + SumSeq(Tail(s))

\* floor of the square root of n, known to lie in lo..hi (bisection)
RECURSIVE ISqrtIn(_, _, _)
ISqrtIn(n, lo, hi) ==
    IF lo >= hi THEN lo
    ELSE LET mid == (lo + hi + 1) \div 2
         IN  IF mid * mid <= n THEN ISqrtIn(n, mid, hi)
             ELSE ISqrtIn(n, lo, mid - 1)

\* the square root of a 32-bit integer is below 2^15.5
ISqrt(n) == ISqrtIn(n, 0, Min(n, 46340))

\* np.mean(arr, axis=0) of a non-empty 2-D array: one value per column
NpMeanAxis0(arr) ==
    [d \in 1..Len(arr[1]) |->
        SumSeq([j \in 1..Len(arr) |-> arr[j][d]]) \div Len(arr)]

\* torch.zeros(n)
TorchZeros(n) == [d \in 1..n |-> 0]

\* l2 norm of a vector, in fixed point
L2Norm(v) == ISqrt(SumSeq([d \in 1..Len(v) |-> v[d] * v[d]]))

\* a vector divided by its l2 norm; a zero vector is left unchanged
L2NormalizeVec(v) ==
    IF L2Norm(v) = 0 THEN v
    ELSE [d \in 1..Len(v) |->
            IF v[d] >= 0 THEN (v[d] * Scale) \div L2Norm(v)
            ELSE -(((-v[d]) * Scale) \div L2Norm(v))]

\* utils.basic_utils.l2_normalize_np_array: along the last axis, so a 1-D
\* array is normalized as one vector and a 2-D array row by row
L2NormalizeNpArray(arr, ndim) ==
    IF ndim = 1 THEN L2NormalizeVec(arr)
    ELSE [j \in 1..Len(arr) |-> L2NormalizeVec(arr[j])]

---------------------------------------------------------------------------
(* The files and feature stores the datasets read.                         *)

VidNames == <<"friends_s01e01", "castle_s01e02", "house_s02e03", "met_s03e04">>

Splits == {"val", "test_public"}

\* desc_id of the i-th line of a query file: neither increasing nor decreasing
DescIdOf(i) == IF i % 2 = 1 THEN i + 1 ELSE i - 1

\* the i-th line of the query file of a split; the lines of the
\* "test_public" file carry no vid_name
RecordOf(split, i) ==
    IF split = "val"
    THEN [desc_id  |-> DescIdOf(i),
          desc     |-> <<"desc", i>>,
          vid_name |-> VidNames[((i - 1) % NumVideos) + 1],
          duration |-> 10 * (((i - 1) % NumVideos) + 1)]
    ELSE [desc_id  |-> DescIdOf(i),
          desc     |-> <<"desc", i>>,
          duration |-> 10 * (((i - 1) % NumVideos) + 1)]

\* utils.basic_utils.load_jsonl: the lines of the file, in file order;
\* a data_path names a split and the number of lines of its file
LoadJsonl(data_path) ==
    [i \in 1..data_path.n |-> RecordOf(data_path.split, i)]

\* utils.basic_utils.load_json(video_duration_idx_path)[eval_split_name]:
\* an insertion-ordered dict vid_name -> [duration, index], as its items
VideoDurationIdx(split) ==
    [k \in 1..(IF split = "val" THEN NumVideos ELSE NumVideos + 1) |->
        <<VidNames[k], <<10 * k, k - 1>>>>]

DescStores == {"desc_bert"}
VidStores == {"vid_feat", "vid_feat_partial"}
SubStores == {"sub_bert", "sub_bert_partial"}

\* the video the partial stores hold no record of
PartialMissing == VidNames[2]

VidNumber(v) == CHOOSE k \in 1..Len(VidNames) : VidNames[k] = v

\* the keys of a store: stringified desc ids (text store), video names
H5Keys(store) ==
    IF store \in DescStores
    THEN {Str(id) : id \in 0..(MaxRecords + 2)}
    ELSE IF store \in {"vid_feat_partial", "sub_bert_partial"}
    THEN {VidNames[k] : k \in 1..Len(VidNames)} \ {PartialMissing}
    ELSE {VidNames[k] : k \in 1..Len(VidNames)}

DescIdOfKey(key) == CHOOSE id \in 0..(MaxRecords + 2) : Str(id) = key

\* the 2-D array a store holds under a key
H5Get(store, key) ==
    IF store \in DescStores
    THEN LET id == DescIdOfKey(key)
         IN  [j \in 1..(id % (MaxStoredLen + 1)) |->
                [d \in 1..FeatDim |-> Scale * (j + d) + id]]
    ELSE IF store \in VidStores
    THEN LET k == VidNumber(key)
             o == IF store = "vid_feat" THEN 0 ELSE 1
         IN  [j \in 1..k |->
                [d \in 1..FeatDim |-> Scale * (2 * j + k + o) + 7 * d]]
    ELSE LET k == VidNumber(key)
             o == IF store = "sub_bert" THEN 0 ELSE 1
         IN  [j \in 1..(k + 1) |->
                [d \in 1..FeatDim |-> Scale * (j + 3 * d + o) + k]]

\* a *_path_or_handler argument: an open h5py.File or the path of one
H5Args(stores) == [kind : {"path", "handle"}, name : stores]

\* lines 63-66, 68-71, 74-77, 159-162, 173-176, 179-182: the handle is
\* reused, a path is opened read-only
H5Resolve(arg) == arg.name
H5Opened(arg) == IF arg.kind = "path" THEN {arg.name} ELSE {}

---------------------------------------------------------------------------
(* RetrievalDataset (training).                                            *)

NoObject == [cls |-> "NoObject"]

Video == <<"v", "i", "d", "e", "o">>
Sub == <<"s", "u", "b">>
Tef == <<"t", "e", "f">>
Underscore == <<"_">>

\* the bug of reading the video modality as always enabled
UseVideo_Always(ctx_mode) == TRUE

\* "video" in ctx_mode: lines 58 and 168
UseVideo(ctx_mode) == StrContains(Video, ctx_mode)

\* "sub" in ctx_mode: lines 59 and 169
UseSub(ctx_mode) == StrContains(Sub, ctx_mode)

\* the bug of keeping the last n_examples records instead of the first
TruncateByRatio_Suffix(data, data_ratio) ==
    IF data_ratio[1] # data_ratio[2]
    THEN LET n_examples == PyInt(Len(data) * data_ratio[1], data_ratio[2])
         IN  SubSeq(data, Len(data) - Min(Max(n_examples, 0), Len(data)) + 1,
                    Len(data))
    ELSE data

\* the record list kept for a data_ratio num/den: lines 53-55, 155-157
TruncateByRatio(data, data_ratio) ==
    IF data_ratio[1] # data_ratio[2]
    THEN LET n_examples == PyInt(Len(data) * data_ratio[1], data_ratio[2])
         IN  PySliceTo(data, n_examples)
    ELSE data

\* RetrievalDataset.__init__: the object built from the arguments a
RetrievalDataset(a) ==
    LET use_video == UseVideo(a.ctx_mode)
        use_sub == UseSub(a.ctx_mode)
    IN  [cls             |-> "RetrievalDataset",
         data_path       |-> a.data_path,
         data_ratio      |-> a.data_ratio,
         desc_bert_path_or_handler |-> a.desc_bert_path_or_handler,
         sub_bert_path_or_handler  |-> a.sub_bert_path_or_handler,
         vid_feat_path_or_handler  |-> a.vid_feat_path_or_handler,
         max_desc_len    |-> a.max_desc_len,
         max_ctx_len     |-> a.max_ctx_len,
         ctx_mode        |-> a.ctx_mode,
         data            |-> TruncateByRatio(LoadJsonl(a.data_path), a.data_ratio),
         use_video       |-> use_video,
         use_sub         |-> use_sub,
         use_tef         |-> StrContains(Tef, a.ctx_mode),
         vid_feat_h5     |-> IF use_video
                             THEN H5Resolve(a.vid_feat_path_or_handler)
                             ELSE NoAttr,
         desc_bert_h5    |-> H5Resolve(a.desc_bert_path_or_handler),
         sub_bert_h5     |-> IF use_sub
                             THEN H5Resolve(a.sub_bert_path_or_handler)
                             ELSE NoAttr,
         normalize_vfeat |-> a.normalize_vfeat,
         normalize_tfeat |-> a.normalize_tfeat]

\* the stores a dataset constructor opens with h5py.File(path, "r")
OpenedBy(a) ==
    (IF UseVideo(a.ctx_mode)
     THEN H5Opened(a.vid_feat_path_or_handler) ELSE {})
    \cup H5Opened(a.desc_bert_path_or_handler)
    \cup (IF UseSub(a.ctx_mode)
          THEN H5Opened(a.sub_bert_path_or_handler) ELSE {})

\* the result of a call: the value returned (a record) or the exception
\* raised, and the stores the call has read
NoVal == [none |-> TRUE]
Returned(op, val, reads) ==
    [op |-> op, status |-> "ok", val |-> val, reads |-> reads]
Raised(op, exc, reads) ==
    [op |-> op, status |-> exc, val |-> NoVal, reads |-> reads]

\* the bug of normalizing the query feature under the video flag
GetQueryFeatByDescId_VFlag(self, desc_id) ==
    LET query_feat == PySliceTo(H5Get(self.desc_bert_h5, Str(desc_id)),
                                self.max_desc_len)
    IN  IF self.normalize_vfeat
        THEN L2NormalizeNpArray(query_feat, 2)
        ELSE query_feat

\* the bug of returning the stored sequence untruncated
GetQueryFeatByDescId_NoTruncate(self, desc_id) ==
    LET query_feat == H5Get(self.desc_bert_h5, Str(desc_id))
    IN  IF self.normalize_tfeat
        THEN L2NormalizeNpArray(query_feat, 2)
        ELSE query_feat

\* get_query_feat_by_desc_id of both classes: lines 116-120 and 206-210
GetQueryFeatByDescId(self, desc_id) ==
    LET query_feat == PySliceTo(H5Get(self.desc_bert_h5, Str(desc_id)),
                                self.max_desc_len)
    IN  IF self.normalize_tfeat
        THEN L2NormalizeNpArray(query_feat, 2)
        ELSE query_feat

\* the bug of building an example without its query feature
QueryInputs_Missing(self, desc_id) == <<>>

\* model_inputs after lines 95-96 and 222-223: the query feature alone
QueryInputs(self, desc_id) ==
    [k \in {"query_feat"} |-> GetQueryFeatByDescId(self, desc_id)]

\* the pooled feature of one context modality: lines 100-103, 108-111,
\* 239-242 and 247-250
PooledFeat(h5, vid_name, max_ctx_len, normalize) ==
    LET feat == NpMeanAxis0(PySliceTo(H5Get(h5, vid_name), max_ctx_len))
    IN  IF normalize THEN L2NormalizeNpArray(feat, 1) ELSE feat

\* lines 99-113 and 238-252: the video and the subtitle feature of a video,
\* or the KeyError of the first enabled store that does not hold it
ContextFeats(self, op, vid_name, meta, inputs, reads) ==
    LET vreads == IF self.use_video THEN reads \cup {self.vid_feat_h5}
                  ELSE reads
        sreads == IF self.use_sub THEN vreads \cup {self.sub_bert_h5}
                  ELSE vreads
    IN  IF self.use_video /\ vid_name \notin H5Keys(self.vid_feat_h5)
        THEN Raised(op, "KeyError", vreads)
        ELSE IF self.use_sub /\ vid_name \notin H5Keys(self.sub_bert_h5)
        THEN Raised(op, "KeyError", sreads)
        ELSE Returned(op,
                [meta |-> meta,
                 model_inputs |->
                    inputs @@
                    [k \in {"video_feat", "sub_feat"} |->
                        IF k = "video_feat"
                        THEN IF self.use_video
                             THEN PooledFeat(self.vid_feat_h5, vid_name,
                                     self.max_ctx_len, self.normalize_vfeat)
                             ELSE TorchZeros(2)
                        ELSE IF self.use_sub
                             THEN PooledFeat(self.sub_bert_h5, vid_name,
                                     self.max_ctx_len, self.normalize_tfeat)
                             ELSE TorchZeros(2)]],
                sreads)

\* RetrievalDataset.__getitem__
TrainGetItem(self, index) ==
    IF ~PyIndexOk(self.data, index)
    THEN Raised("getitem", "IndexError", {})
    ELSE
    LET raw_data == PyIndex(self.data, index)
    IN  IF "vid_name" \notin DOMAIN raw_data
        THEN Raised("getitem", "KeyError", {})
        ELSE IF Str(raw_data.desc_id) \notin H5Keys(self.desc_bert_h5)
        THEN Raised("getitem", "KeyError", {self.desc_bert_h5})
        ELSE ContextFeats(self, "getitem", raw_data.vid_name,
                [desc_id  |-> raw_data.desc_id,
                 desc     |-> raw_data.desc,
                 vid_name |-> raw_data.vid_name,
                 duration |-> raw_data.duration],
                QueryInputs(self, raw_data.desc_id),
                {self.desc_bert_h5})

---------------------------------------------------------------------------
(* RetrievalEvalDataset (evaluation).                                      *)

DataModes == {"context", "query"}

\* RetrievalEvalDataset.__init__ past the assertion of set_data_mode
RetrievalEvalDataset(a) ==
    LET use_video == UseVideo(a.ctx_mode)
        use_sub == UseSub(a.ctx_mode)
        video_data == VideoDurationIdx(a.eval_split_name)
    IN  [cls             |-> "RetrievalEvalDataset",
         eval_split_name |-> a.eval_split_name,
         ctx_mode        |-> a.ctx_mode,
         load_gt_video   |-> FALSE,
         data_ratio      |-> a.data_ratio,
         normalize_vfeat |-> a.normalize_vfeat,
         normalize_tfeat |-> a.normalize_tfeat,
         data_mode       |-> a.data_mode,
         max_desc_len    |-> a.max_desc_len,
         max_ctx_len     |-> a.max_ctx_len,
         data_path       |-> a.data_path,
         query_data      |-> TruncateByRatio(LoadJsonl(a.data_path), a.data_ratio),
         desc_bert_h5    |-> H5Resolve(a.desc_bert_path_or_handler),
         video_data      |-> [k \in 1..Len(video_data) |->
                                [vid_name |-> video_data[k][1],
                                 duration |-> video_data[k][2][1]]],
         video2idx       |-> [v \in {video_data[k][1] : k \in 1..Len(video_data)} |->
                                (CHOOSE k \in 1..Len(video_data) :
                                    video_data[k][1] = v) - 1],
         use_video       |-> use_video,
         use_sub         |-> use_sub,
         use_tef         |-> StrContains(Tef, a.ctx_mode),
         vid_feat_h5     |-> IF use_video
                             THEN H5Resolve(a.vid_feat_path_or_handler)
                             ELSE NoAttr,
         sub_bert_h5     |-> IF use_sub
                             THEN H5Resolve(a.sub_bert_path_or_handler)
                             ELSE NoAttr]

\* the bug of attaching the ground-truth video name whenever the record
\* has one
QueryMetaVidName_Always(self, raw_data) ==
    IF "vid_name" \in DOMAIN raw_data THEN raw_data.vid_name ELSE None

\* line 219: the vid_name of the metadata of a query example
QueryMetaVidName(self, raw_data) ==
    IF self.load_gt_video THEN raw_data.vid_name ELSE None

\* RetrievalEvalDataset._get_item_query
GetItemQuery(self, index) ==
    IF ~PyIndexOk(self.query_data, index)
    THEN Raised("getitem", "IndexError", {})
    ELSE
    LET raw_data == PyIndex(self.query_data, index)
    IN  IF self.load_gt_video /\ "vid_name" \notin DOMAIN raw_data
        THEN Raised("getitem", "KeyError", {})
        ELSE IF Str(raw_data.desc_id) \notin H5Keys(self.desc_bert_h5)
        THEN Raised("getitem", "KeyError", {self.desc_bert_h5})
        ELSE Returned("getitem",
                [meta |->
                    [desc_id  |-> raw_data.desc_id,
                     desc     |-> raw_data.desc,
                     vid_name |-> QueryMetaVidName(self, raw_data)],
                 model_inputs |-> QueryInputs(self, raw_data.desc_id)],
                {self.desc_bert_h5})

\* RetrievalEvalDataset._get_item_context
GetItemContext(self, index) ==
    IF ~PyIndexOk(self.video_data, index)
    THEN Raised("getitem", "IndexError", {})
    ELSE
    LET raw_data == PyIndex(self.video_data, index)
    IN  ContextFeats(self, "getitem", raw_data.vid_name,
            [vid_name |-> raw_data.vid_name,
             duration |-> raw_data.duration],
            <<>>, {})

\* RetrievalEvalDataset.__getitem__
EvalGetItem(self, index) ==
    IF self.data_mode = "context"
    THEN GetItemContext(self, index)
    ELSE GetItemQuery(self, index)

\* the bug of reporting the number of queries in either mode
EvalLen_IgnoresMode(self) == Len(self.query_data)

\* RetrievalEvalDataset.__len__
EvalLen(self) ==
    IF self.data_mode = "context"
    THEN Len(self.video_data)
    ELSE Len(self.query_data)

\* __getitem__ and __len__ of the object at hand
GetItem(self, index) ==
    IF self.cls = "RetrievalDataset"
    THEN TrainGetItem(self, index)
    ELSE EvalGetItem(self, index)

DsLen(self) ==
    IF self.cls = "RetrievalDataset" THEN Len(self.data) ELSE EvalLen(self)

---------------------------------------------------------------------------
(* retrieval_collate and prepare_batch_inputs.                             *)

FeatKeys == {"query_feat", "video_feat", "sub_feat"}

\* "feat" in k, for the keys the builders produce
FeatInKey(k) == k \in FeatKeys

\* utils.tensor_utils.pad_sequences_1d of 2-D sequences: every sequence
\* padded with zero rows to the longest length of the batch (or to
\* fixed_length when given), the mask of the real positions, the lengths;
\* fixed_length is {} for None and {n} for the integer n
PadSequences1d(sequences, fixed_length) ==
    LET lengths == [i \in 1..Len(sequences) |-> Len(sequences[i])]
        longest == CHOOSE m \in {lengths[i] : i \in 1..Len(lengths)} :
                       \A i \in 1..Len(lengths) : lengths[i] <= m
        max_length == IF fixed_length # {}
                      THEN CHOOSE n \in fixed_length : TRUE
                      ELSE longest
    IN  <<[i \in 1..Len(sequences) |->
              [j \in 1..max_length |->
                  IF j <= lengths[i] THEN sequences[i][j]
                  ELSE TorchZeros(FeatDim)]],
          [i \in 1..Len(sequences) |->
              [j \in 1..max_length |-> j <= lengths[i]]],
          lengths>>

\* whether torch.stack accepts the tensors: they all have one shape
StackOk(tensors) ==
    \A i \in 1..Len(tensors) : Len(tensors[i]) = Len(tensors[1])

\* the bug of padding the query features to a fixed global length
CollateKey_FixedLength(batch_, k) ==
    IF k = "query_feat"
    THEN PadSequences1d([i \in 1..Len(batch_) |-> batch_[i].model_inputs[k]],
                        {MaxStoredLen})
    ELSE [i \in 1..Len(batch_) |-> batch_[i].model_inputs[k]]

\* the batched tensor of one key: lines 262-266
CollateKey(batch_, k) ==
    IF k = "query_feat"
    THEN PadSequences1d([i \in 1..Len(batch_) |-> batch_[i].model_inputs[k]],
                        {})
    ELSE [i \in 1..Len(batch_) |-> batch_[i].model_inputs[k]]

\* the bug of returning the metadata in reverse order
CollateMeta_Reversed(batch_) ==
    [i \in 1..Len(batch_) |-> batch_[Len(batch_) + 1 - i].meta]

\* the metadata list: line 257
CollateMeta(batch_) == [i \in 1..Len(batch_) |-> batch_[i].meta]

\* retrieval_collate
RetrievalCollate(batch_) ==
    IF batch_ = <<>>
    THEN Raised("collate", "IndexError", {})
    ELSE
    LET keys == {k \in DOMAIN batch_[1].model_inputs : FeatInKey(k)}
    IN  IF \E k \in keys, i \in 1..Len(batch_) :
               k \notin DOMAIN batch_[i].model_inputs
        THEN Raised("collate", "KeyError", {})
        ELSE IF \E k \in keys \ {"query_feat"} :
               ~StackOk([i \in 1..Len(batch_) |-> batch_[i].model_inputs[k]])
        THEN Raised("collate", "RuntimeError", {})
        ELSE Returned("collate",
                [batch_meta   |-> CollateMeta(batch_),
                 batched_data |-> [k \in keys |-> CollateKey(batch_, k)]],
                {})

Devices == {"cpu", "cuda"}

\* tensor.to(device, non_blocking=...): the same values, on the device
ToDevice(t, device) == [data |-> t, device |-> device]

\* prepare_batch_inputs
PrepareBatchInputs(batched_model_inputs, device) ==
    LET keys == DOMAIN batched_model_inputs
        outkeys == keys \cup
                   (IF "query_feat" \in keys THEN {"query_mask"} ELSE {})
    IN  [k \in outkeys |->
            IF k = "query_feat"
            THEN ToDevice(batched_model_inputs["query_feat"][1], device)
            ELSE IF k = "query_mask"
            THEN ToDevice(batched_model_inputs["query_feat"][2], device)
            ELSE ToDevice(batched_model_inputs[k], device)]

---------------------------------------------------------------------------
(* The operations as actions.  ds is the dataset object (NoObject before   *)
(* a constructor has returned), opened the stores its constructor opened,  *)
(* out the result of the last call with its argument, batch the examples   *)
(* the loader has fetched for the next call of the collate function.       *)

NoCall == Returned("none", NoVal, {}) @@ [arg |-> NoVal]

Init ==
    /\ ds = NoObject
    /\ opened = {}
    /\ out = NoCall
    /\ batch = <<>>

\* the context modes a run is configured with
CtxModes ==
    { Video, Sub, Video \o Underscore \o Sub \o Underscore \o Tef, Tef }

\* the stores handed to a constructor, all as paths or all as open
\* handles, the video and the subtitle store both complete or both partial
H5ArgSets ==
    { [desc_bert_path_or_handler |-> [kind |-> kind, name |-> d],
       vid_feat_path_or_handler  |-> [kind |-> kind, name |-> v],
       sub_bert_path_or_handler  |-> [kind |-> kind, name |-> s]] :
        kind \in {"path", "handle"},
        d \in DescStores,
        v \in VidStores,
        s \in SubStores } \cap
    { h \in [desc_bert_path_or_handler : H5Args(DescStores),
             vid_feat_path_or_handler  : H5Args(VidStores),
             sub_bert_path_or_handler  : H5Args(SubStores)] :
        (h.sub_bert_path_or_handler.name = "sub_bert")
            = (h.vid_feat_path_or_handler.name = "vid_feat") }

\* RetrievalDataset(...): lines 37-80
NewRetrievalDataset(a) ==
    /\ ds = NoObject
    /\ ds' = RetrievalDataset(a)
    /\ opened' = OpenedBy(a)
    /\ out' = Returned("new", NoVal, {}) @@ [arg |-> [data_path |-> a.data_path]]
    /\ UNCHANGED batch

\* RetrievalEvalDataset(...): lines 135-182; set_data_mode asserts at line
\* 149, before anything is loaded or opened
NewRetrievalEvalDataset(a) ==
    /\ ds = NoObject
    /\ IF a.data_mode \in DataModes
       THEN /\ ds' = RetrievalEvalDataset(a)
            /\ opened' = OpenedBy(a)
            /\ out' = Returned("new", NoVal, {}) @@ [arg |-> [data_path |-> a.data_path]]
       ELSE /\ out' = Raised("new", "AssertionError", {})
                        @@ [arg |-> [data_path |-> a.data_path]]
            /\ UNCHANGED <<ds, opened>>
    /\ UNCHANGED batch

\* RetrievalEvalDataset.set_data_mode: lines 184-187
SetDataMode(data_mode) ==
    /\ ds.cls = "RetrievalEvalDataset"
    /\ IF data_mode \in DataModes
       THEN /\ ds' = [ds EXCEPT !.data_mode = data_mode]
            /\ out' = Returned("set_data_mode", NoVal, {})
                        @@ [arg |-> [data_mode |-> data_mode]]
       ELSE /\ out' = Raised("set_data_mode", "AssertionError", {})
                        @@ [arg |-> [data_mode |-> data_mode]]
            /\ UNCHANGED ds
    /\ UNCHANGED <<opened, batch>>

\* RetrievalEvalDataset.load_gt_vid_name_for_query: lines 189-192
LoadGtVidNameForQuery(load_gt_video) ==
    /\ ds.cls = "RetrievalEvalDataset"
    /\ IF ds.query_data = <<>>
       THEN /\ out' = Raised("load_gt_vid_name_for_query", "IndexError", {})
                        @@ [arg |-> [load_gt_video |-> load_gt_video]]
            /\ UNCHANGED ds
       ELSE IF "vid_name" \notin DOMAIN ds.query_data[1]
       THEN /\ out' = Raised("load_gt_vid_name_for_query", "AssertionError", {})
                        @@ [arg |-> [load_gt_video |-> load_gt_video]]
            /\ UNCHANGED ds
       ELSE /\ ds' = [ds EXCEPT !.load_gt_video = load_gt_video]
            /\ out' = Returned("load_gt_vid_name_for_query", NoVal, {})
                        @@ [arg |-> [load_gt_video |-> load_gt_video]]
    /\ UNCHANGED <<opened, batch>>

\* len(ds): lines 82-83 and 194-198
CallLen ==
    /\ ds # NoObject
    /\ out' = Returned("len", [len |-> DsLen(ds)], {}) @@ [arg |-> NoVal]
    /\ UNCHANGED <<ds, opened, batch>>

\* ds[index]: lines 85-114 and 200-204
CallGetItem(index) ==
    /\ ds # NoObject
    /\ out' = GetItem(ds, index) @@ [arg |-> [index |-> index]]
    /\ UNCHANGED <<ds, opened, batch>>

\* the loader fetches ds[index] for the batch it is assembling
LoaderFetch(index) ==
    /\ ds # NoObject
    /\ Len(batch) < MaxBatch
    /\ out' = GetItem(ds, index) @@ [arg |-> [index |-> index]]
    /\ batch' = IF out'.status = "ok" THEN Append(batch, out'.val) ELSE batch
    /\ UNCHANGED <<ds, opened>>

\* the loader hands the fetched examples to retrieval_collate: lines 256-267
CallCollate ==
    /\ ds # NoObject
    /\ out' = RetrievalCollate(batch) @@ [arg |-> [batch |-> batch]]
    /\ batch' = <<>>
    /\ UNCHANGED <<ds, opened>>

\* prepare_batch_inputs on the features of a collated batch: lines 270-278
CallPrepareBatchInputs(device) ==
    /\ out.op = "collate"
    /\ out.status = "ok"
    /\ out' = Returned("prepare_batch_inputs",
                       PrepareBatchInputs(out.val.batched_data, device), {})
                @@ [arg |-> [batched_model_inputs |-> out.val.batched_data,
                             device |-> device]]
    /\ UNCHANGED <<ds, opened, batch>>

---------------------------------------------------------------------------
(* Specifications.                                                         *)

\* the arguments of RetrievalDataset(...) over the given input sets
TrainArgs(paths, ratios, desc_lens, ctx_lens, ctx_modes, flags) ==
    { h @@ [data_path       |-> p,
            data_ratio      |-> r,
            max_desc_len    |-> dl,
            max_ctx_len     |-> cl,
            ctx_mode        |-> cm,
            normalize_vfeat |-> nv,
            normalize_tfeat |-> nt] :
        h \in H5ArgSets, p \in paths, r \in ratios, dl \in desc_lens,
        cl \in ctx_lens, cm \in ctx_modes, nv \in flags, nt \in flags }

\* the arguments of RetrievalEvalDataset(...): those of the training set,
\* the split of the query file and the initial data_mode
EvalArgs(paths, ratios, desc_lens, ctx_lens, ctx_modes, flags, modes) ==
    { a @@ [eval_split_name |-> a.data_path.split, data_mode |-> m] :
        a \in TrainArgs(paths, ratios, desc_lens, ctx_lens, ctx_modes, flags),
        m \in modes }

\* the query files: every length of the "val" file, one "test_public" file
DataPaths(max) ==
    [split : {"val"}, n : 0..max] \cup [split : {"test_public"}, n : {max}]

\* the data ratios in (0, 1] the runs use
ValidRatios == { <<1, 1>>, <<1, 2>> }

\* the life cycle of one dataset object
LifeTrainArgs ==
    TrainArgs(DataPaths(SmallRecords), ValidRatios, {1, MaxDescLen},
              {1, MaxCtxLen}, CtxModes, BOOLEAN)
LifeEvalArgs ==
    EvalArgs(DataPaths(SmallRecords), ValidRatios, {1, MaxDescLen},
             {1, MaxCtxLen}, CtxModes, BOOLEAN, DataModes \cup {"video_query"})
LifeIndices == (-1)..(Max(SmallRecords, NumVideos + 1))

Next ==
    \/ \E a \in LifeTrainArgs : NewRetrievalDataset(a)
    \/ \E a \in LifeEvalArgs : NewRetrievalEvalDataset(a)
    \/ \E m \in DataModes \cup {"video_query"} : SetDataMode(m)
    \/ \E b \in BOOLEAN : LoadGtVidNameForQuery(b)
    \/ CallLen
    \/ \E i \in LifeIndices : CallGetItem(i)

Spec == Init /\ [][Next]_vars

\* the data ratios outside (0, 1]: zero, negative, above one
InvalidRatios == { <<0, 1>>, <<-1, 2>>, <<3, 2>>, <<2, 1>> }

\* construction over every file length and data ratio, the other
\* arguments at the defaults of the signatures (ctx_mode="video",
\* normalize_vfeat=True, normalize_tfeat=True)
RatioPaths == [split : {"val"}, n : 0..MaxRecords]
Ratios == ValidRatios \cup { <<3, 10>>, <<3, 4>> } \cup InvalidRatios
RatioTrainArgs ==
    { a \in TrainArgs(RatioPaths, Ratios, {MaxDescLen}, {MaxCtxLen},
                      {Video}, {TRUE}) : a.vid_feat_path_or_handler.kind = "path" }
RatioEvalArgs ==
    { a \in EvalArgs(RatioPaths, Ratios, {MaxDescLen}, {MaxCtxLen},
                     {Video}, {TRUE}, DataModes) :
        a.vid_feat_path_or_handler.kind = "path" }

NextRatio ==
    \/ \E a \in RatioTrainArgs : NewRetrievalDataset(a)
    \/ \E a \in RatioEvalArgs : NewRetrievalEvalDataset(a)
    \/ CallLen
    \/ \E i \in 0..MaxRecords : CallGetItem(i)

SpecRatio == Init /\ [][NextRatio]_vars

\* batches fetched from one dataset over the complete stores and the
\* 10-line "val" file, collated and moved to a device
CollatePaths == [split : {"val"}, n : {MaxRecords}]
CollateTrainArgs ==
    { a \in TrainArgs(CollatePaths, {<<1, 1>>}, {MaxDescLen, MaxStoredLen},
                      {MaxCtxLen}, {Video, Tef}, {TRUE}) :
        /\ a.vid_feat_path_or_handler = [kind |-> "path", name |-> "vid_feat"] }
CollateEvalArgs ==
    { a \in EvalArgs(CollatePaths, {<<1, 1>>}, {MaxStoredLen},
                     {MaxCtxLen}, {Video}, {TRUE}, DataModes) :
        /\ a.vid_feat_path_or_handler = [kind |-> "path", name |-> "vid_feat"] }

\* the indices the sampler draws: every other line of the file
SampledIndices == { i \in 0..(MaxRecords - 1) : i % 2 = 1 }

NextCollate ==
    \/ \E a \in CollateTrainArgs : NewRetrievalDataset(a)
    \/ \E a \in CollateEvalArgs : NewRetrievalEvalDataset(a)
    \/ \E m \in DataModes : SetDataMode(m)
    \/ \E i \in SampledIndices : LoaderFetch(i)
    \/ CallCollate
    \/ \E device \in Devices : CallPrepareBatchInputs(device)

SpecCollate == Init /\ [][NextCollate]_vars

---------------------------------------------------------------------------
(* Properties of the life cycle (checked under Spec).                      *)

IsTrain(self) == self.cls = "RetrievalDataset"
IsEval(self) == self.cls = "RetrievalEvalDataset"

\* the last call was ds[index] and returned an example
ItemOk == out.op = "getitem" /\ out.status = "ok"

\* the result of a call without the argument the action recorded with it
Result(o) == [f \in {"op", "status", "val", "reads"} |-> o[f]]

\* the number of distinct videos the video-index file lists for a split
DistinctVideos(split) ==
    Cardinality({VideoDurationIdx(split)[k][1] :
                    k \in 1..Len(VideoDurationIdx(split))})

\* the number of records a data_ratio in (0, 1] retains of an n-line file
Retained(n, data_ratio) == (n * data_ratio[1]) \div data_ratio[2]

\* C1. Ground-truth leakage guard: a RetrievalEvalDataset starts with the
\* video name withheld, the setting changes only by a call of
\* load_gt_vid_name_for_query and then to the argument of that call, and
\* every example produced in "query" mode while the setting is off (no
\* opt-in, or the most recent opt-in call passed False) has vid_name None.
C1_LeakageGuard ==
    [][ /\ (out'.op = "new" /\ IsEval(ds')) => ~ds'.load_gt_video
        /\ (IsEval(ds) /\ IsEval(ds') /\ ds'.load_gt_video # ds.load_gt_video)
              => /\ out'.op = "load_gt_vid_name_for_query"
                 /\ out'.status = "ok"
                 /\ out'.arg.load_gt_video = ds'.load_gt_video
        /\ (IsEval(ds') /\ ds'.data_mode = "query" /\ out'.op = "getitem"
              /\ out'.status = "ok" /\ ~ds'.load_gt_video)
              => out'.val.meta.vid_name = None ]_vars

\* C1 witness: a query example of a record that has a video name, built
\* with the setting off, carries no video name
C1_Witness ==
    /\ IsEval(ds) /\ ds.data_mode = "query" /\ ~ds.load_gt_video
    /\ ItemOk
    /\ "vid_name" \in DOMAIN PyIndex(ds.query_data, out.arg.index)
    /\ out.val.meta.vid_name = None

\* C2. Evaluation mode switch: data_mode is always "context" or "query"; a
\* set_data_mode call with one of the two selects it and a call with any
\* other string raises and leaves the object unchanged; len() is the number
\* of distinct videos of the split in "context" mode and the number of
\* retained query records in "query" mode; ds[index] is the result of the
\* builder of the selected mode.
C2_ModeSwitch ==
    [][ /\ IsEval(ds') => ds'.data_mode \in DataModes
        /\ (IsEval(ds) /\ out'.op = "set_data_mode")
              => IF out'.arg.data_mode \in DataModes
                 THEN out'.status = "ok" /\ ds'.data_mode = out'.arg.data_mode
                 ELSE out'.status = "AssertionError" /\ ds' = ds
        /\ (IsEval(ds') /\ out'.op = "len")
              => /\ out'.status = "ok"
                 /\ out'.val.len = IF ds'.data_mode = "context"
                               THEN DistinctVideos(ds'.eval_split_name)
                               ELSE Retained(ds'.data_path.n, ds'.data_ratio)
        /\ (IsEval(ds') /\ out'.op = "getitem")
              => Result(out') = IF ds'.data_mode = "context"
                                THEN GetItemContext(ds', out'.arg.index)
                                ELSE GetItemQuery(ds', out'.arg.index) ]_vars

\* C2 witness: in "context" mode len() is the number of videos although the
\* object holds another number of queries, of a file cut by data_ratio
C2_Witness ==
    /\ IsEval(ds) /\ ds.data_mode = "context"
    /\ out.op = "len"
    /\ out.val.len = DistinctVideos(ds.eval_split_name)
    /\ out.val.len # Len(ds.query_data)
    /\ ds.data_ratio # <<1, 1>>

\* C5 as stated: every example any builder produces has the query feature.
C5_Original ==
    ItemOk => "query_feat" \in DOMAIN out.val.model_inputs

\* C5. Every example RetrievalDataset.__getitem__ produces and every
\* example RetrievalEvalDataset.__getitem__ produces in "query" mode has
\* the query feature; an example built in "context" mode has the video and
\* the subtitle feature and no query feature.
C5_QueryFeatPresent ==
    ItemOk =>
        IF IsEval(ds) /\ ds.data_mode = "context"
        THEN DOMAIN out.val.model_inputs = {"video_feat", "sub_feat"}
        ELSE "query_feat" \in DOMAIN out.val.model_inputs

\* C5 witness: a training example with its query feature
C5_Witness ==
    /\ IsTrain(ds) /\ ItemOk
    /\ "query_feat" \in DOMAIN out.val.model_inputs
    /\ out.val.model_inputs["query_feat"] # <<>>

\* C6. For a modality absent from ctx_mode ("video" or "sub"), the store of
\* the modality is not opened by the constructor and not read by
\* __getitem__, and the feature of every example built in training mode and
\* in evaluation "context" mode is the 2-element zero placeholder, whatever
\* store was passed and whether or not it holds the video.
C6_DisabledPlaceholder ==
    /\ (ds # NoObject /\ ~StrContains(Video, ds.ctx_mode))
          => /\ opened \cap VidStores = {}
             /\ out.op = "getitem" => out.reads \cap VidStores = {}
             /\ (ItemOk /\ (IsTrain(ds) \/ ds.data_mode = "context"))
                   => out.val.model_inputs["video_feat"] = <<0, 0>>
    /\ (ds # NoObject /\ ~StrContains(Sub, ds.ctx_mode))
          => /\ opened \cap SubStores = {}
             /\ out.op = "getitem" => out.reads \cap SubStores = {}
             /\ (ItemOk /\ (IsTrain(ds) \/ ds.data_mode = "context"))
                   => out.val.model_inputs["sub_feat"] = <<0, 0>>

\* C6 witness: with both modalities disabled and the partial stores passed
\* as paths, the example of the video the stores lack has both placeholders
C6_Witness ==
    /\ IsTrain(ds) /\ ds.ctx_mode = Tef
    /\ ds.vid_feat_path_or_handler = [kind |-> "path", name |-> "vid_feat_partial"]
    /\ ItemOk
    /\ out.val.meta.vid_name = PartialMissing
    /\ out.val.model_inputs["video_feat"] = <<0, 0>>
    /\ out.val.model_inputs["sub_feat"] = <<0, 0>>

WithT(self, b) == [self EXCEPT !.normalize_tfeat = b]
WithV(self, b) == [self EXCEPT !.normalize_vfeat = b]

\* the feature k of the example ds[out.arg] of a reconfigured object
FeatOf(self, k) == GetItem(self, out.arg.index).val.model_inputs[k]

\* the modality of feature k is enabled
Enabled(k) ==
    IF k = "video_feat" THEN ds.use_video
    ELSE IF k = "sub_feat" THEN ds.use_sub
    ELSE TRUE

\* C9 as stated: the text flag governs the query feature only, the other
\* flag the video and the subtitle feature together.
C9_Original ==
    ItemOk =>
        \A k \in DOMAIN out.val.model_inputs :
            IF k = "query_feat"
            THEN FeatOf(WithV(ds, TRUE), k) = FeatOf(WithV(ds, FALSE), k)
            ELSE /\ FeatOf(WithT(ds, TRUE), k) = FeatOf(WithT(ds, FALSE), k)
                 /\ Enabled(k) =>
                       FeatOf(WithV(ds, TRUE), k)
                         = L2NormalizeNpArray(FeatOf(WithV(ds, FALSE), k), 1)

\* C9. normalize_tfeat governs the text-derived features (the query and the
\* subtitle feature), normalize_vfeat the video feature: two configurations
\* that differ only in normalize_tfeat give the same video feature, two
\* that differ only in normalize_vfeat give the same query and subtitle
\* features, and each feature is the l2-normalized form of its unnormalized
\* value exactly when its own flag is set.
C9_FlagsIndependent ==
    ItemOk =>
        \A k \in DOMAIN out.val.model_inputs :
            IF k = "video_feat"
            THEN /\ FeatOf(WithT(ds, TRUE), k) = FeatOf(WithT(ds, FALSE), k)
                 /\ Enabled(k) =>
                       FeatOf(WithV(ds, TRUE), k)
                         = L2NormalizeNpArray(FeatOf(WithV(ds, FALSE), k), 1)
            ELSE /\ FeatOf(WithV(ds, TRUE), k) = FeatOf(WithV(ds, FALSE), k)
                 /\ Enabled(k) =>
                       FeatOf(WithT(ds, TRUE), k)
                         = L2NormalizeNpArray(FeatOf(WithT(ds, FALSE), k),
                                              IF k = "query_feat" THEN 2 ELSE 1)

\* C9 witness: an example with all three features whose subtitle and query
\* features change with normalize_tfeat and whose video feature changes
\* with normalize_vfeat
C9_Witness ==
    /\ IsTrain(ds) /\ ds.use_video /\ ds.use_sub /\ ItemOk
    /\ FeatOf(WithT(ds, TRUE), "sub_feat") # FeatOf(WithT(ds, FALSE), "sub_feat")
    /\ FeatOf(WithT(ds, TRUE), "query_feat") # FeatOf(WithT(ds, FALSE), "query_feat")
    /\ FeatOf(WithV(ds, TRUE), "video_feat") # FeatOf(WithV(ds, FALSE), "video_feat")

\* C10. Query truncation: the query feature of an example has min(L, N) rows
\* for a stored sequence of L rows and max_desc_len N, and its row j is the
\* stored row j (l2-normalized when normalize_tfeat is set), in order.
C10_QueryTruncation ==
    (ItemOk /\ "query_feat" \in DOMAIN out.val.model_inputs) =>
        LET stored == H5Get(ds.desc_bert_h5, Str(out.val.meta.desc_id))
            q == out.val.model_inputs["query_feat"]
        IN  /\ Len(q) = Min(Len(stored), ds.max_desc_len)
            /\ \A j \in 1..Len(q) :
                  q[j] = IF ds.normalize_tfeat
                         THEN L2NormalizeVec(stored[j]) ELSE stored[j]

\* C10 witness: a stored sequence longer than max_desc_len is cut to it
C10_Witness ==
    /\ ItemOk /\ "query_feat" \in DOMAIN out.val.model_inputs
    /\ Len(H5Get(ds.desc_bert_h5, Str(out.val.meta.desc_id))) > ds.max_desc_len
    /\ Len(out.val.model_inputs["query_feat"]) = ds.max_desc_len

---------------------------------------------------------------------------
(* Properties of the data ratio (checked under SpecRatio).                 *)

\* the data ratio num/den lies in (0, 1]
RatioInRange(data_ratio) ==
    data_ratio[1] > 0 /\ data_ratio[1] <= data_ratio[2]

\* the records a dataset object keeps: data, or query_data
Kept(self) == IF IsTrain(self) THEN self.data ELSE self.query_data

\* C3. Data-ratio truncation: for a ratio in (0, 1] both classes keep a
\* prefix of the file's records in file order (int(n * ratio) of them), so
\* that ds[i] is built from line i of the file; ratio 1/2 of a 10-record
\* file keeps exactly the first 5 records and ratio 1 keeps all n.
C3_PrefixTruncation ==
    (ds # NoObject /\ RatioInRange(ds.data_ratio)) =>
        LET file == LoadJsonl(ds.data_path)
            kept == Kept(ds)
        IN  /\ Len(kept) = Retained(Len(file), ds.data_ratio)
            /\ \A j \in 1..Len(kept) : kept[j] = file[j]
            /\ ds.data_ratio = <<1, 1>> => kept = file
            /\ (ds.data_ratio = <<1, 2>> /\ Len(file) = 10)
                  => kept = SubSeq(file, 1, 5)
            /\ (ItemOk /\ (IsTrain(ds) \/ ds.data_mode = "query"))
                  => /\ out.arg.index < Len(kept)
                     /\ out.val.meta.desc_id = file[out.arg.index + 1].desc_id

\* C3 witness: ratio 1/2 of the 10-record file keeps 5 records and the
\* last of them, ds[4], is line 5 of the file
C3_Witness ==
    /\ ds # NoObject
    /\ ds.data_ratio = <<1, 2>> /\ ds.data_path.n = 10
    /\ Len(Kept(ds)) = 5
    /\ ItemOk /\ (IsTrain(ds) \/ ds.data_mode = "query")
    /\ out.arg.index = 4
    /\ out.val.meta.desc_id = DescIdOf(5)

\* C4. Constructing a dataset with a data ratio outside (0, 1] fails: no
\* dataset object exists for such a ratio.
C4_InvalidRatioRejected ==
    ds # NoObject => RatioInRange(ds.data_ratio)

---------------------------------------------------------------------------
(* Properties of the collate function (checked under SpecCollate).         *)

\* the last call collated a non-empty batch of examples with one key set
CollatedUniform ==
    /\ out.op = "collate"
    /\ out.arg.batch # <<>>
    /\ \A i \in 1..Len(out.arg.batch) :
          DOMAIN out.arg.batch[i].model_inputs
            = DOMAIN out.arg.batch[1].model_inputs

\* C7. Collate ordering: for a non-empty list of examples with identical
\* feature-key sets retrieval_collate returns the metadata of the examples
\* unmodified and in input order, and for every feature key row i of the
\* batched tensor is built from input example i.
C7_CollateOrdering ==
    CollatedUniform =>
        LET b == out.arg.batch
        IN  /\ out.status = "ok"
            /\ out.val.batch_meta = [i \in 1..Len(b) |-> b[i].meta]
            /\ DOMAIN out.val.batched_data = DOMAIN b[1].model_inputs
            /\ \A k \in DOMAIN out.val.batched_data :
                  LET t == out.val.batched_data[k]
                  IN  IF k = "query_feat"
                      THEN /\ Len(t[1]) = Len(b)
                           /\ \A i \in 1..Len(b) :
                                 SubSeq(t[1][i], 1, Len(b[i].model_inputs[k]))
                                   = b[i].model_inputs[k]
                      ELSE t = [i \in 1..Len(b) |-> b[i].model_inputs[k]]

\* C7 witness: examples with ids 5, 9, 3 give metadata in the order 5, 9, 3
\* and query rows that differ from one another
C7_Witness ==
    /\ CollatedUniform /\ out.status = "ok"
    /\ Len(out.val.batch_meta) = 3
    /\ [i \in 1..3 |-> out.val.batch_meta[i].desc_id] = <<5, 9, 3>>
    /\ "query_feat" \in DOMAIN out.val.batched_data
    /\ "video_feat" \in DOMAIN out.val.batched_data
    /\ out.val.batched_data["query_feat"][1][1]
         # out.val.batched_data["query_feat"][1][3]

\* the longest query feature of a batch
Longest(b) ==
    CHOOSE m \in {Len(b[i].model_inputs["query_feat"]) : i \in 1..Len(b)} :
        \A i \in 1..Len(b) : Len(b[i].model_inputs["query_feat"]) <= m

\* C8. Collate padding: the query features of a batch are padded with zero
\* rows to the length of the longest of the batch; the mask is true on the
\* real positions of each row and false on the padding; the lengths are the
\* original lengths; prepare_batch_inputs passes the padded tensor on as
\* query_feat and the mask as query_mask.
C8_CollatePadding ==
    /\ (out.op = "collate" /\ out.status = "ok"
          /\ "query_feat" \in DOMAIN out.val.batched_data) =>
        LET b == out.arg.batch
            padded == out.val.batched_data["query_feat"][1]
            mask == out.val.batched_data["query_feat"][2]
            lengths == out.val.batched_data["query_feat"][3]
        IN  \A i \in 1..Len(b) :
                LET q == b[i].model_inputs["query_feat"]
                IN  /\ Len(padded[i]) = Longest(b)
                    /\ Len(mask[i]) = Longest(b)
                    /\ lengths[i] = Len(q)
                    /\ \A j \in 1..Longest(b) :
                          /\ mask[i][j] = (j <= Len(q))
                          /\ padded[i][j] = IF j <= Len(q) THEN q[j]
                                            ELSE [d \in 1..FeatDim |-> 0]
    /\ (out.op = "prepare_batch_inputs"
          /\ "query_feat" \in DOMAIN out.arg.batched_model_inputs) =>
        /\ out.val["query_feat"].data
             = out.arg.batched_model_inputs["query_feat"][1]
        /\ out.val["query_mask"].data
             = out.arg.batched_model_inputs["query_feat"][2]

\* C8 witness: query features of 3 and 7 rows give two rows of length 7,
\* the mask of the first false on its last four positions
C8_Witness ==
    /\ out.op = "collate" /\ out.status = "ok"
    /\ "query_feat" \in DOMAIN out.val.batched_data
    /\ out.val.batched_data["query_feat"][3] = <<3, 7>>
    /\ Len(out.val.batched_data["query_feat"][1][1]) = 7
    /\ Len(out.val.batched_data["query_feat"][1][2]) = 7
    /\ out.val.batched_data["query_feat"][2][1]
         = <<TRUE, TRUE, TRUE, FALSE, FALSE, FALSE, FALSE>>

====
